---- MODULE Spec2Model ----
(***************************************************************************)
(* Model of scrape.py: the Lao-lottery scraper that fetches the results    *)
(* and statistics pages of lotto.thaiorc.com and writes the static JSON    *)
(* API under api/.                                                         *)
(*                                                                         *)
(* Text is modelled as a tuple of one-character strings, a Python dict as  *)
(* the tuple of its (key, value) pairs in insertion order.                 *)
(***************************************************************************)
EXTENDS Integers, Sequences, FiniteSets, TLC

VARIABLES mode, pc, results, now, clock, by_year, files, trace, exit_code,
          num_digits, day, all_dates, budget, flaky, arg, ret

vars == <<mode, pc, results, now, clock, by_year, files, trace, exit_code,
          num_digits, day, all_dates, budget, flaky, arg, ret>>

(***************************************************************************)
(* Values of the variables a specification does not use.                   *)
(***************************************************************************)
RunIdle ==
    /\ mode = "none" /\ results = <<>> /\ now = <<>> /\ clock = 0
    /\ by_year = <<>> /\ files = <<>> /\ trace = <<>> /\ exit_code = <<>>

ByDateIdle ==
    num_digits = 0 /\ day = 0 /\ all_dates = <<>> /\ budget = 0 /\ flaky = {}

runVars == <<mode, results, now, clock, by_year, files, trace, exit_code>>

byDateVars == <<num_digits, day, all_dates, budget, flaky>>

(***************************************************************************)
(* Text primitives (Python str / int / format).                            *)
(***************************************************************************)
DigitChars == <<"0", "1", "2", "3", "4", "5", "6", "7", "8", "9">>

T2(a, b) == <<a, b>>

T4(a, b, c, d) == <<a, b, c, d>>

IsDigit(c) == \E i \in 1..10 : DigitChars[i] = c

DigitVal(c) == (CHOOSE i \in 1..10 : DigitChars[i] = c) - 1

\* Code-point order of the characters that occur in the model.
CharOrder == <<" ", "-", "/", "0", "1", "2", "3", "4", "5", "6", "7", "8", "9",
               "a", "b", "g", "x">>

Ord(c) == CHOOSE i \in 1..Len(CharOrder) : CharOrder[i] = c

RECURSIVE StrLess(_, _)
\* Python's str "<": lexicographic by code point, a proper prefix is smaller.
StrLess(a, b) ==
    IF b = <<>> THEN FALSE
    ELSE IF a = <<>> THEN TRUE
    ELSE IF Head(a) # Head(b) THEN Ord(Head(a)) < Ord(Head(b))
    ELSE StrLess(Tail(a), Tail(b))

RECURSIVE LStrip(_)
LStrip(s) == IF s # <<>> /\ Head(s) = " " THEN LStrip(Tail(s)) ELSE s

RECURSIVE RStrip(_)
RStrip(s) ==
    IF s # <<>> /\ s[Len(s)] = " " THEN RStrip(SubSeq(s, 1, Len(s) - 1)) ELSE s

\* str.strip()
Strip(s) == RStrip(LStrip(s))

RECURSIVE Split(_)
\* str.split("/")
Split(s) ==
    IF \A i \in 1..Len(s) : s[i] # "/" THEN <<s>>
    ELSE LET i == CHOOSE k \in 1..Len(s) :
                      s[k] = "/" /\ \A j \in 1..(k - 1) : s[j] # "/"
         IN  <<SubSeq(s, 1, i - 1)>> \o Split(SubSeq(s, i + 1, Len(s)))

RECURSIVE DigitsValue(_)
DigitsValue(s) ==
    IF s = <<>> THEN 0
    ELSE 10 * DigitsValue(SubSeq(s, 1, Len(s) - 1)) + DigitVal(s[Len(s)])

\* int(text): surrounding blanks and one sign are accepted, then digits only;
\* anything else raises ValueError (ok = FALSE).
IntParse(s) ==
    LET t    == Strip(s)
        neg  == t # <<>> /\ Head(t) = "-"
        body == IF neg THEN Tail(t) ELSE t
    IN  IF body = <<>> \/ \E i \in 1..Len(body) : ~IsDigit(body[i])
        THEN [ok |-> FALSE, val |-> 0]
        ELSE [ok |-> TRUE,
              val |-> IF neg THEN 0 - DigitsValue(body) ELSE DigitsValue(body)]

RECURSIVE Dec(_)
\* str(n) for n >= 0
Dec(n) == IF n < 10 THEN <<DigitChars[n + 1]>>
          ELSE Dec(n \div 10) \o <<DigitChars[(n % 10) + 1]>>

RECURSIVE Zeros(_)
Zeros(k) == IF k <= 0 THEN <<>> ELSE <<"0">> \o Zeros(k - 1)

\* format(n, "0{width}d"): the sign counts towards the width.
Format(n, width) ==
    LET sign   == IF n < 0 THEN <<"-">> ELSE <<>>
        digits == Dec(IF n < 0 THEN 0 - n ELSE n)
    IN  sign \o Zeros(width - Len(sign) - Len(digits)) \o digits

ValueError == <<"ValueError">>

BE_OFFSET == 543

\* A slip that adds the era offset instead of subtracting it.
parse_thai_date_add(date_str) ==
    LET parts == Split(Strip(date_str))
    IN  IF Len(parts) # 3 THEN date_str
        ELSE LET d == IntParse(parts[1])
                 m == IntParse(parts[2])
                 y == IntParse(parts[3])
             IN  IF ~(d.ok /\ m.ok /\ y.ok) THEN ValueError
                 ELSE Format(y.val + BE_OFFSET, 4) \o <<"-">>
                      \o Format(m.val, 2) \o <<"-">> \o Format(d.val, 2)

parse_thai_date(date_str) ==
    LET parts == Split(Strip(date_str))
    IN  IF Len(parts) # 3 THEN date_str
        ELSE LET d == IntParse(parts[1])
                 m == IntParse(parts[2])
                 y == IntParse(parts[3])
             IN  IF ~(d.ok /\ m.ok /\ y.ok) THEN ValueError
                 ELSE Format(y.val - BE_OFFSET, 4) \o <<"-">>
                      \o Format(m.val, 2) \o <<"-">> \o Format(d.val, 2)

(***************************************************************************)
(* Python dict as the tuple of its <<key, value>> pairs, insertion order.  *)
(***************************************************************************)
Keys(d) == {d[i][1] : i \in 1..Len(d)}

HasKey(d, k) == \E i \in 1..Len(d) : d[i][1] = k

Get(d, k) == d[CHOOSE i \in 1..Len(d) : d[i][1] = k][2]

\* d[k] = v : an existing key keeps its place, a new key goes last.
DictSet(d, k, v) ==
    IF HasKey(d, k)
    THEN [i \in 1..Len(d) |-> IF d[i][1] = k THEN <<k, v>> ELSE d[i]]
    ELSE Append(d, <<k, v>>)

(***************************************************************************)
(* scrape_digit_position_stats.  A page's stats-number <font> tags are     *)
(* given in document order; each carries its label text and the texts of   *)
(* the stats-rate<N> fonts of its enclosing <tr> (in_row: it has one).     *)
(* The result is [raised, value]: raised when an int() failed.             *)
(***************************************************************************)
NoDigit == <<>>

RECURSIVE FirstDigit(_)
\* re.search(r"(\d)", label): the first digit character, NoDigit if none
FirstDigit(label) ==
    IF label = <<>> THEN NoDigit
    ELSE IF IsDigit(Head(label)) THEN <<Head(label)>>
    ELSE FirstDigit(Tail(label))

\* A slip that accepts rows with more rate values than expected.
store_values_atleast(digit_stats, digit, n, values) ==
    IF n = 3 /\ Len(values) >= 4
    THEN DictSet(digit_stats, digit,
             [hundreds |-> values[1], tens |-> values[2],
              units |-> values[3], total |-> values[4]])
    ELSE IF n = 2 /\ Len(values) >= 3
    THEN DictSet(digit_stats, digit,
             [tens |-> values[1], units |-> values[2], total |-> values[3]])
    ELSE digit_stats

\* The if / elif that binds a row's rate values to the positional slots.
store_values(digit_stats, digit, n, values) ==
    IF n = 3 /\ Len(values) = 4
    THEN DictSet(digit_stats, digit,
             [hundreds |-> values[1], tens |-> values[2],
              units |-> values[3], total |-> values[4]])
    ELSE IF n = 2 /\ Len(values) = 3
    THEN DictSet(digit_stats, digit,
             [tens |-> values[1], units |-> values[2], total |-> values[3]])
    ELSE digit_stats

RECURSIVE digit_stats_loop(_, _, _)
digit_stats_loop(fonts, n, digit_stats) ==
    IF fonts = <<>> THEN [raised |-> FALSE, value |-> digit_stats]
    ELSE LET font_tag == Head(fonts)
             digit    == FirstDigit(Strip(font_tag.label))
         IN  IF digit = NoDigit \/ ~font_tag.in_row
             THEN digit_stats_loop(Tail(fonts), n, digit_stats)
             ELSE LET parsed == [i \in 1..Len(font_tag.rates) |->
                                     IntParse(font_tag.rates[i])]
                      values == [i \in 1..Len(parsed) |-> parsed[i].val]
                  IN  IF \E i \in 1..Len(parsed) : ~parsed[i].ok
                      THEN [raised |-> TRUE, value |-> <<>>]
                      ELSE digit_stats_loop(Tail(fonts), n,
                               store_values(digit_stats, digit, n, values))

scrape_digit_position_stats(soup, n) == digit_stats_loop(soup.fonts, n, <<>>)

RECURSIVE SeqsUpTo(_, _)
SeqsUpTo(S, n) ==
    IF n = 0 THEN {<<>>}
    ELSE LET shorter == SeqsUpTo(S, n - 1)
         IN  shorter \cup {Append(q, x) : q \in shorter, x \in S}

\* str.isdigit()
IsDigitText(s) == s # <<>> /\ \A i \in 1..Len(s) : IsDigit(s[i])

\* [t for t in texts if t]
RECURSIVE NonEmpty(_)
NonEmpty(texts) ==
    IF texts = <<>> THEN <<>>
    ELSE IF Head(texts) = <<>> THEN NonEmpty(Tail(texts))
    ELSE <<Head(texts)>> \o NonEmpty(Tail(texts))

StripAll(texts) == [i \in 1..Len(texts) |-> Strip(texts[i])]

RECURSIVE frequency_loop(_, _)
frequency_loop(rows, frequency) ==
    IF rows = <<>> THEN frequency
    ELSE LET row       == Head(rows)
             freq_text == Strip(row.first)
             numbers   == NonEmpty(StripAll(row.fonts))
         IN  IF row.cells # 2 \/ ~IsDigitText(freq_text) \/ numbers = <<>>
             THEN frequency_loop(Tail(rows), frequency)
             ELSE frequency_loop(Tail(rows),
                                 DictSet(frequency, freq_text, numbers))

\* soup.freq: has_header when a <td> reads "จำนวนครั้ง" inside a table; rows
\* are that table's <tr>: cell count, first cell text, fonts of the second.
scrape_frequency_distribution(soup) ==
    IF ~soup.freq.has_header THEN <<>>
    ELSE frequency_loop(soup.freq.rows, <<>>)

\* soup.never: the <div id="statslast{n}All"> and the texts of its fonts.
scrape_never_drawn(soup, n) ==
    IF ~soup.never.found THEN <<>>
    ELSE NonEmpty(StripAll(soup.never.fonts))

(***************************************************************************)
(* URLs and output paths: <<text before, formatted value, text after>>.    *)
(***************************************************************************)
BASE_URL == "https://lotto.thaiorc.com"

Fixed(text) == <<text, <<>>, "">>

LAO_LOTTERY_URL == Fixed("https://lotto.thaiorc.com/lao/lottery.php")

LAO_STATS_LAST3_URL == Fixed("https://lotto.thaiorc.com/lao/last3/stats-years10.php")

LAO_STATS_LAST2_URL == Fixed("https://lotto.thaiorc.com/lao/last2/stats-years10.php")

NumDays == 31

\* f"{BASE_URL}/lao/last{n}/stats-date{day}.php?ay=2559"
DateUrl(n, d) ==
    <<IF n = 3 THEN "https://lotto.thaiorc.com/lao/last3/stats-date"
               ELSE "https://lotto.thaiorc.com/lao/last2/stats-date",
      Dec(d), ".php?ay=2559">>

Event(op, target) == [op |-> op, target |-> target]

(***************************************************************************)
(* Pages the statistics URLs may return.  A fetch either raises            *)
(* (ok = FALSE) or yields a parsed page.                                   *)
(***************************************************************************)
Font(label, rates) == [label |-> label, in_row |-> TRUE, rates |-> rates]

FetchError ==
    [ok |-> FALSE, description |-> [present |-> FALSE, content |-> <<>>],
     fonts |-> <<>>, freq |-> [has_header |-> FALSE, rows |-> <<>>],
     never |-> [found |-> FALSE, fonts |-> <<>>]]

WellFormedPage(n) ==
    [ok |-> TRUE,
     description |-> [present |-> TRUE, content |-> <<"x">>],
     fonts |-> IF n = 3
               THEN <<Font(<<"x", " ", "0">>,
                           <<T2("1", "2"), <<"8">>, <<"5">>, T2("2", "5")>>)>>
               ELSE <<Font(<<"x", " ", "0">>, <<<<"3">>, <<"4">>, <<"7">>>>)>>,
     freq |-> [has_header |-> TRUE,
               rows |-> <<[cells |-> 2, first |-> <<"x">>, fonts |-> <<>>],
                          [cells |-> 2, first |-> <<"7">>,
                           fonts |-> <<T2("1", "2"), <<>>, T2("4", "5")>>]>>],
     never |-> [found |-> TRUE, fonts |-> <<T2("0", "0"), T2("0", "0")>>]]

\* A page one of whose rate cells is not a number: int() raises on it.
BadRatePage(n) ==
    [WellFormedPage(n) EXCEPT
        !.fonts = <<Font(<<"x", " ", "0">>, <<T2("1", "2"), <<"x">>>>)>>]

\* What a statistics URL can answer when `left` more failures are allowed.
\* budget counts the failures still allowed in the per-day loops, flaky is the
\* set of days on which the server may fail.
Responses(n, left) ==
    {WellFormedPage(n)}
    \cup (IF left > 0 THEN {FetchError, BadRatePage(n)} ELSE {})

(***************************************************************************)
(* scrape_stats_by_date: one action per iteration of its loop.             *)
(***************************************************************************)
CallStatsByDate ==
    /\ pc = "call_by_date"
    /\ all_dates' = <<>>
    /\ day' = 1
    /\ pc' = "by_date"
    /\ UNCHANGED <<num_digits, budget, flaky, runVars, arg, ret>>

\* The body of the try block and its except clause, for the response `page`.
DayOutcome(page, n, d, dates) ==
    LET url         == DateUrl(n, d)
        fetched     == <<Event("fetch", url)>>
        digit_stats == scrape_digit_position_stats(page, n)
        frequency   == scrape_frequency_distribution(page)
        failed      == <<Event("stderr", <<"Error on date ", Dec(d), "">>)>>
    IN  IF ~page.ok \/ digit_stats.raised
        THEN [all_dates |-> dates, events |-> fetched \o failed]
        ELSE [all_dates |->
                  DictSet(dates, Dec(d),
                          [date |-> d,
                           digit_position_stats |-> digit_stats.value,
                           frequency_distribution |-> frequency,
                           source_url |-> url]),
              events |-> fetched \o
                         (IF d < NumDays THEN <<Event("sleep", Fixed("0.3"))>>
                                         ELSE <<>>)]

\* A slip that leaves the loop at the first failing day (break for continue).
ScrapeDay_break ==
    /\ pc = "by_date"
    /\ day <= NumDays
    /\ \E page \in Responses(num_digits, IF day \in flaky THEN budget ELSE 0) :
          LET out == DayOutcome(page, num_digits, day, all_dates)
          IN  /\ all_dates' = out.all_dates
              /\ trace' = trace \o out.events
              /\ clock' = clock + Len(out.events)
              /\ budget' = IF page = WellFormedPage(num_digits)
                           THEN budget ELSE budget - 1
              /\ day' = IF out.all_dates = all_dates THEN NumDays + 1
                        ELSE day + 1
    /\ UNCHANGED <<pc, num_digits, flaky, mode, results, now, by_year, files,
                   exit_code, arg, ret>>

ScrapeDay ==
    /\ pc = "by_date"
    /\ day <= NumDays
    /\ \E page \in Responses(num_digits, IF day \in flaky THEN budget ELSE 0) :
          LET out == DayOutcome(page, num_digits, day, all_dates)
          IN  /\ all_dates' = out.all_dates
              /\ trace' = trace \o out.events
              /\ clock' = clock + Len(out.events)
              /\ budget' = IF page = WellFormedPage(num_digits)
                           THEN budget ELSE budget - 1
    /\ day' = day + 1
    /\ UNCHANGED <<pc, num_digits, flaky, mode, results, now, by_year, files,
                   exit_code, arg, ret>>

ReturnStatsByDate ==
    /\ pc = "by_date"
    /\ day > NumDays
    /\ pc' = "by_date_done"
    /\ UNCHANGED <<byDateVars, runVars, arg, ret>>

(***************************************************************************)
(* scrape_lottery_results.  The page is the list of its <tr> rows: number  *)
(* of <td> cells, classes of the first cell, the <a> of the first cell     *)
(* (its text and the digits after "contentID=" in its href, empty when the *)
(* pattern does not match) and the texts of the other three cells.         *)
(***************************************************************************)
None == <<"None", <<>>, "">>

LotteryRecord(row) ==
    LET date_thai  == Strip(row.link.text)
        content_id == row.link.content_id
    IN  [date       |-> parse_thai_date(date_thai),
         date_thai  |-> date_thai,
         numbers    |-> [last4 |-> Strip(row.numbers[1]),
                         last3 |-> Strip(row.numbers[2]),
                         last2 |-> Strip(row.numbers[3])],
         detail_url |-> IF content_id # <<>>
                        THEN <<"https://lotto.thaiorc.com/lao/jackpot.php?contentID=",
                               content_id, "">>
                        ELSE None]

RECURSIVE lottery_rows_loop(_, _)
lottery_rows_loop(rows, acc) ==
    IF rows = <<>> THEN [raised |-> FALSE, value |-> acc]
    ELSE LET row == Head(rows)
         IN  IF \/ row.cells # 4
                \/ "stats-title" \notin row.class
                \/ "stats-title3" \in row.class
                \/ ~row.link.present
             THEN lottery_rows_loop(Tail(rows), acc)
             ELSE IF parse_thai_date(Strip(row.link.text)) = ValueError
             THEN [raised |-> TRUE, value |-> <<>>]
             ELSE lottery_rows_loop(Tail(rows), Append(acc, LotteryRecord(row)))

scrape_lottery_results(page) == lottery_rows_loop(page.rows, <<>>)

(***************************************************************************)
(* save_json and the documents the two modes write.                        *)
(***************************************************************************)
\* The file system after open(filepath, "w") and json.dump(data).
Written(fs, filepath, data) ==
    [f \in (DOMAIN fs) \cup {filepath} |-> IF f = filepath THEN data ELSE fs[f]]

\* datetime.utcnow().isoformat() + "Z" at clock reading t
Timestamp(t) == <<"T", Dec(t), "Z">>

LatestPath == Fixed("api/latest.json")

ResultsPath == Fixed("api/results.json")

IndexPath == Fixed("api/index.json")

YearPath(year) == <<"api/year/", year, ".json">>

StatsPath(n) == IF n = 3 THEN Fixed("api/stats/last3.json")
                         ELSE Fixed("api/stats/last2.json")

ByDatePath(n) == IF n = 3 THEN Fixed("api/stats/last3-by-date.json")
                          ELSE Fixed("api/stats/last2-by-date.json")

\* f"api/stats/last{n}/date{d}.json", d already formatted
DayPath(n, d) == <<IF n = 3 THEN "api/stats/last3/date" ELSE "api/stats/last2/date",
                   d, ".json">>

\* r["date"][:4]
YearOf(r) == SubSeq(r.date, 1, IF Len(r.date) < 4 THEN Len(r.date) ELSE 4)

RECURSIVE group_by_year_overwrite(_, _)
\* A slip that keeps only the last record of each year.
group_by_year_overwrite(rs, acc) ==
    IF rs = <<>> THEN acc
    ELSE group_by_year_overwrite(Tail(rs), DictSet(acc, YearOf(Head(rs)), <<Head(rs)>>))

RECURSIVE group_by_year(_, _)
\* for r in results: by_year.setdefault(year, []).append(r)
group_by_year(rs, acc) ==
    IF rs = <<>> THEN acc
    ELSE LET r    == Head(rs)
             year == YearOf(r)
             old  == IF HasKey(acc, year) THEN Get(acc, year) ELSE <<>>
         IN  group_by_year(Tail(rs), DictSet(acc, year, Append(old, r)))

RECURSIVE InsertDesc(_, _)
InsertDesc(sorted, k) ==
    IF sorted = <<>> THEN <<k>>
    ELSE IF StrLess(Head(sorted), k) THEN <<k>> \o sorted
    ELSE <<Head(sorted)>> \o InsertDesc(Tail(sorted), k)

RECURSIVE SortedDesc(_)
\* sorted(keys, reverse=True)
SortedDesc(keys) ==
    IF keys = <<>> THEN <<>>
    ELSE InsertDesc(SortedDesc(SubSeq(keys, 1, Len(keys) - 1)), keys[Len(keys)])

KeyList(d) == [i \in 1..Len(d) |-> d[i][1]]

\* A slip that lists only the per-day files that exist.
index_document_existing(now_, by_year_) ==
    LET desc == SortedDesc(KeyList(by_year_))
        days(n) == SelectSeq([d \in 1..NumDays |-> DayPath(n, Dec(d))],
                             LAMBDA f : f \in DOMAIN files)
    IN  [status      |-> "ok",
         name        |-> "Lao Lottery API",
         description |-> "scraped from thaiorc.com",
         updated_at  |-> now_,
         endpoints   |->
            [latest              |-> LatestPath,
             all_results         |-> ResultsPath,
             by_year             |-> [i \in 1..Len(desc) |-> YearPath(desc[i])],
             stats_last3         |-> StatsPath(3),
             stats_last2         |-> StatsPath(2),
             stats_last3_by_date |-> ByDatePath(3),
             stats_last3_date    |-> days(3),
             stats_last2_by_date |-> ByDatePath(2),
             stats_last2_date    |-> days(2)]]

\* The index dict of _save_index (the Thai description text is shortened).
index_document(now_, by_year_) ==
    LET desc == SortedDesc(KeyList(by_year_))
    IN  [status      |-> "ok",
         name        |-> "Lao Lottery API",
         description |-> "scraped from thaiorc.com",
         updated_at  |-> now_,
         endpoints   |->
            [latest              |-> LatestPath,
             all_results         |-> ResultsPath,
             by_year             |-> [i \in 1..Len(desc) |-> YearPath(desc[i])],
             stats_last3         |-> StatsPath(3),
             stats_last2         |-> StatsPath(2),
             stats_last3_by_date |-> ByDatePath(3),
             stats_last3_date    |-> [d \in 1..NumDays |-> DayPath(3, Dec(d))],
             stats_last2_by_date |-> ByDatePath(2),
             stats_last2_date    |-> [d \in 1..NumDays |-> DayPath(2, Dec(d))]]]

(***************************************************************************)
(* Pages the results URL may return.                                       *)
(***************************************************************************)
DataRow(text, id, n4, n3, n2) ==
    [cells |-> 4, class |-> {"stats-title"},
     link |-> [present |-> TRUE, text |-> text, content_id |-> id],
     numbers |-> <<n4, n3, n2>>]

HeaderRow ==
    [cells |-> 4, class |-> {"stats-title", "stats-title3"},
     link |-> [present |-> FALSE, text |-> <<>>, content_id |-> <<>>],
     numbers |-> <<<<>>, <<>>, <<>>>>]

RowKinds ==
    { DataRow(<<"0", "6", "/", "0", "2", "/", "2", "5", "6", "9">>, <<"7">>,
              T4("1", "2", "3", "4"), <<"2", "3", "4">>, T2("3", "4")),
      DataRow(<<"3", "1", "/", "1", "2", "/", "2", "5", "6", "8">>, <<>>,
              T4("0", "0", "1", "2"), <<"0", "1", "2">>, <<>>),
      DataRow(<<"0", "1", "/", "0", "2", "/", "2", "5", "6", "9">>, <<"8">>,
              T4("5", "6", "7", "8"), <<"6", "7", "8">>, T2("7", "8")),
      DataRow(<<"g", "a", "b">>, <<>>, <<>>, <<>>, <<>>),
      DataRow(<<"a", "/", "b", "/", "x">>, <<>>, <<>>, <<>>, <<>>),
      HeaderRow }

ResultPages(maxRows) ==
    {[ok |-> FALSE, rows |-> <<>>]}
    \cup {[ok |-> TRUE, rows |-> q] : q \in SeqsUpTo(RowKinds, maxRows)}

(***************************************************************************)
(* The two modes, scrape_latest_only and scrape_full, statement by         *)
(* statement.  They share every step up to the year files.                 *)
(***************************************************************************)
Modes == {"latest", "full"}

MaxRows == 3

MaxRunDayFailures == 2

\* Days whose statistics page may fail during a whole run.
RunFlakyDays == {1, 17, 31}

Init ==
    /\ mode \in Modes
    /\ pc = "start"
    /\ results = <<>> /\ now = <<>> /\ clock = 0 /\ by_year = <<>>
    /\ files = <<>> /\ trace = <<>> /\ exit_code = <<>>
    /\ num_digits = 0 /\ day = 0 /\ all_dates = <<>>
    /\ budget = MaxRunDayFailures
    /\ flaky = RunFlakyDays
    /\ arg = <<>> /\ ret = <<>>

\* results = scrape_lottery_results(); an exception ends the process.
ScrapeLotteryResults ==
    /\ pc = "start"
    /\ \E page \in ResultPages(MaxRows) :
          LET r == scrape_lottery_results(page)
          IN  IF ~page.ok \/ r.raised
              THEN /\ pc' = "crashed" /\ exit_code' = <<1>>
                   /\ UNCHANGED results
              ELSE /\ pc' = "check" /\ results' = r.value
                   /\ UNCHANGED exit_code
    /\ trace' = Append(trace, Event("fetch", LAO_LOTTERY_URL))
    /\ clock' = clock + 1
    /\ UNCHANGED <<mode, now, by_year, files, byDateVars, arg, ret>>

\* A slip that goes on with an empty result list.
CheckResults_noexit ==
    /\ pc = "check"
    /\ pc' = "stamp"
    /\ UNCHANGED <<trace, exit_code>>
    /\ UNCHANGED <<mode, results, now, clock, by_year, files, byDateVars,
                   arg, ret>>

\* if not results: print(..., file=sys.stderr); sys.exit(1)
CheckResults ==
    /\ pc = "check"
    /\ IF results = <<>>
       THEN /\ trace' = Append(trace, Event("stderr", Fixed("No results found!")))
            /\ exit_code' = <<1>>
            /\ pc' = "exited"
       ELSE /\ pc' = "stamp"
            /\ UNCHANGED <<trace, exit_code>>
    /\ UNCHANGED <<mode, results, now, clock, by_year, files, byDateVars,
                   arg, ret>>

\* now = datetime.utcnow().isoformat() + "Z"
ReadClock ==
    /\ pc = "stamp"
    /\ now' = Timestamp(clock)
    /\ trace' = Append(trace, Event("now", Timestamp(clock)))
    /\ pc' = "latest"
    /\ UNCHANGED <<mode, results, clock, by_year, files, exit_code,
                   byDateVars, arg, ret>>

SaveLatest ==
    /\ pc = "latest"
    /\ files' = Written(files, LatestPath,
                        [status |-> "ok", updated_at |-> now,
                         source |-> LAO_LOTTERY_URL,
                         data |-> IF results # <<>> THEN results[1] ELSE None])
    /\ trace' = Append(trace, Event("write", LatestPath))
    /\ pc' = "results"
    /\ UNCHANGED <<mode, results, now, clock, by_year, exit_code,
                   byDateVars, arg, ret>>

SaveResults ==
    /\ pc = "results"
    /\ files' = Written(files, ResultsPath,
                        [status |-> "ok", updated_at |-> now,
                         source |-> LAO_LOTTERY_URL,
                         count |-> Len(results), data |-> results])
    /\ trace' = Append(trace, Event("write", ResultsPath))
    /\ pc' = "group"
    /\ UNCHANGED <<mode, results, now, clock, by_year, exit_code,
                   byDateVars, arg, ret>>

GroupByYear ==
    /\ pc = "group"
    /\ by_year' = group_by_year(results, <<>>)
    /\ pc' = "years"
    /\ UNCHANGED <<mode, results, now, clock, files, trace, exit_code,
                   byDateVars, arg, ret>>

RECURSIVE YearFiles(_, _, _)
\* for year, year_results in by_year.items(): save_json(year_data, ...)
YearFiles(items, fs, now_) ==
    IF items = <<>> THEN fs
    ELSE YearFiles(Tail(items),
                   Written(fs, YearPath(Head(items)[1]),
                           [status |-> "ok", updated_at |-> now_,
                            source |-> LAO_LOTTERY_URL,
                            year |-> Head(items)[1],
                            count |-> Len(Head(items)[2]),
                            data |-> Head(items)[2]]),
                   now_)

\* A slip that leaves the index out of the latest mode.
SaveYears_noindex ==
    /\ pc = "years"
    /\ files' = YearFiles(by_year, files, now)
    /\ trace' = trace \o [i \in 1..Len(by_year) |->
                             Event("write", YearPath(by_year[i][1]))]
    /\ pc' = IF mode = "latest" THEN "done" ELSE "stats3"
    /\ UNCHANGED <<mode, results, now, clock, by_year, exit_code,
                   byDateVars, arg, ret>>

SaveYears ==
    /\ pc = "years"
    /\ files' = YearFiles(by_year, files, now)
    /\ trace' = trace \o [i \in 1..Len(by_year) |->
                             Event("write", YearPath(by_year[i][1]))]
    /\ pc' = IF mode = "latest" THEN "index" ELSE "stats3"
    /\ UNCHANGED <<mode, results, now, clock, by_year, exit_code,
                   byDateVars, arg, ret>>

\* scrape_stats_last3 / scrape_stats_last2 on the fetched page
scrape_stats_last(page, n) ==
    LET digit_stats == scrape_digit_position_stats(page, n)
        never_drawn == scrape_never_drawn(page, n)
    IN  [raised |-> ~page.ok \/ digit_stats.raised,
         value  |-> [description |-> IF page.description.present
                                     THEN page.description.content ELSE <<>>,
                     digit_position_stats |-> digit_stats.value,
                     frequency_distribution |-> scrape_frequency_distribution(page),
                     never_drawn |-> never_drawn,
                     never_drawn_count |-> Len(never_drawn)]]

\* One summary page: scrape it and save api/stats/last{n}.json; an exception
\* of the scrape is not caught and ends the process.  "10y" stands for the
\* Thai text of the period field.
StatsSummary(n, url, next) ==
    /\ \E page \in Responses(n, 1) :
          LET s == scrape_stats_last(page, n)
          IN  IF s.raised
              THEN /\ pc' = "crashed" /\ exit_code' = <<1>>
                   /\ trace' = Append(trace, Event("fetch", url))
                   /\ UNCHANGED files
              ELSE /\ pc' = next
                   /\ files' = Written(files, StatsPath(n),
                                       [status |-> "ok", updated_at |-> now,
                                        source |-> url,
                                        period |-> "10y", data |-> s.value])
                   /\ trace' = trace \o <<Event("fetch", url),
                                          Event("write", StatsPath(n))>>
                   /\ UNCHANGED exit_code
    /\ clock' = clock + 1
    /\ UNCHANGED <<mode, results, now, by_year, day, all_dates, budget,
                   flaky, arg, ret>>

StatsLast3 ==
    /\ pc = "stats3"
    /\ StatsSummary(3, LAO_STATS_LAST3_URL, "stats2")
    /\ UNCHANGED num_digits

StatsLast2 ==
    /\ pc = "stats2"
    /\ StatsSummary(2, LAO_STATS_LAST2_URL, "call_by_date")
    /\ num_digits' = 3

RECURSIVE DayFiles(_, _, _, _)
\* for day, day_data in stats_by_date.items(): save_json({...}, date{day}.json)
DayFiles(items, n, fs, now_) ==
    IF items = <<>> THEN fs
    ELSE DayFiles(Tail(items), n,
                  Written(fs, DayPath(n, Head(items)[1]),
                          [status |-> "ok", updated_at |-> now_,
                           date |-> IntParse(Head(items)[1]).val,
                           period |-> "10y",
                           data |-> Head(items)[2]]),
                  now_)

\* The by-date summary and the per-day files of one digit width.
SaveByDate(n, source, next) ==
    /\ pc = "by_date_done"
    /\ mode = "full"
    /\ num_digits = n
    /\ files' = DayFiles(all_dates, n,
                         Written(files, ByDatePath(n),
                                 [status |-> "ok", updated_at |-> now,
                                  source |-> source, period |-> "10y",
                                  count |-> Len(all_dates),
                                  data |-> all_dates]),
                         now)
    /\ trace' = trace \o <<Event("write", ByDatePath(n))>>
                      \o [i \in 1..Len(all_dates) |->
                             Event("write", DayPath(n, all_dates[i][1]))]
    /\ pc' = next
    /\ UNCHANGED <<mode, results, now, clock, by_year, exit_code, day,
                   all_dates, budget, flaky, arg, ret>>

SaveByDate3 ==
    /\ SaveByDate(3, Fixed("https://lotto.thaiorc.com/lao/last3/stats-date{1-31}.php"),
                  "call_by_date")
    /\ num_digits' = 2

SaveByDate2 ==
    /\ SaveByDate(2, Fixed("https://lotto.thaiorc.com/lao/last2/stats-date{1-31}.php"),
                  "index")
    /\ UNCHANGED num_digits

\* A slip that stamps the index with a fresh clock reading.
SaveIndex_fresh ==
    /\ pc = "index"
    /\ files' = Written(files, IndexPath, index_document(Timestamp(clock + 1), by_year))
    /\ trace' = Append(trace, Event("write", IndexPath))
    /\ pc' = "done"
    /\ exit_code' = <<0>>
    /\ UNCHANGED <<mode, results, now, clock, by_year, byDateVars, arg, ret>>

\* _save_index(now, by_year), then the mode returns
SaveIndex ==
    /\ pc = "index"
    /\ files' = Written(files, IndexPath, index_document(now, by_year))
    /\ trace' = Append(trace, Event("write", IndexPath))
    /\ pc' = "done"
    /\ exit_code' = <<0>>
    /\ UNCHANGED <<mode, results, now, clock, by_year, byDateVars, arg, ret>>

\* main(): scrape_latest_only runs the steps up to the year files and then
\* the index; scrape_full also runs the statistics steps in between.
Next ==
    \/ ScrapeLotteryResults \/ CheckResults \/ ReadClock \/ SaveLatest
    \/ SaveResults \/ GroupByYear \/ SaveYears
    \/ StatsLast3 \/ StatsLast2
    \/ CallStatsByDate \/ ScrapeDay \/ ReturnStatsByDate
    \/ SaveByDate3 \/ SaveByDate2 \/ SaveIndex

Spec == Init /\ [][Next]_vars

(***************************************************************************)
(* SpecDate: parse_thai_date applied to one input text.                    *)
(***************************************************************************)
DayTexts == {T2("0", "1"), T2("0", "6"), T2("3", "1")}

MonthTexts == {T2("0", "2"), T2("1", "2")}

YearTexts == {T4("2", "5", "6", "9"), T4("2", "5", "6", "8"),
              T4("0", "5", "4", "3"), T4("0", "5", "0", "0"),
              T4("9", "9", "9", "9")}

SlashDates == {d \o <<"/">> \o m \o <<"/">> \o y :
                   d \in DayTexts, m \in MonthTexts, y \in YearTexts}

OddTexts ==
    { <<>>, <<"g", "a", "b">>, <<"0", "6", "/", "0", "2">>,
      <<"0", "6", "/", "0", "2", "/", "2", "5", "6", "9", "/", "1">>,
      <<"2", "0", "2", "6", "-", "0", "2", "-", "0", "6">>,
      <<"a", "/", "b", "/", "x">>, <<"/", "/">>,
      <<"6", "/", "2", "/", "2", "5", "6", "9">>,
      <<" ", "0", "6", "/", "0", "2", " ">>,
      <<"0", "6", "/", " ", "2", "/", "2", "5", "6", "9">>,
      <<"0", "6", "/", "0", "2", "/", "-", "5", "0", "0">> }

DateInputs ==
    SlashDates \cup OddTexts
    \cup {<<" ">> \o s : s \in SlashDates} \cup {s \o <<" ">> : s \in SlashDates}

InitDate ==
    /\ RunIdle /\ ByDateIdle
    /\ pc = "call_parse_thai_date"
    /\ arg \in DateInputs
    /\ ret = <<>>

CallParseThaiDate ==
    /\ pc = "call_parse_thai_date"
    /\ ret' = parse_thai_date(arg)
    /\ pc' = "ret_parse_thai_date"
    /\ UNCHANGED <<arg, runVars, byDateVars>>

NextDate == CallParseThaiDate

SpecDate == InitDate /\ [][NextDate]_vars

(***************************************************************************)
(* SpecDigits: scrape_digit_position_stats applied to one page.            *)
(***************************************************************************)
MaxFonts == 2

LabelTexts == {<<"x", " ", "0">>, <<"x", " ", "1">>, <<"x">>}

RateRows ==
    { <<T2("1", "2"), <<"8">>, <<"5">>, T2("2", "5")>>,
      <<<<"3">>, <<"4">>, <<"7">>>>,
      <<<<"1">>, <<"2">>>>,
      <<<<"1">>, <<"2">>, <<"3">>, <<"4">>, <<"5">>>>,
      <<T2("1", "2"), <<"x">>, <<"5">>, T2("2", "5")>>,
      <<<<>>>> }

FontTags ==
    [label : LabelTexts, in_row : {TRUE}, rates : RateRows]
    \cup [label : LabelTexts, in_row : {FALSE}, rates : {<<>>}]

InitDigits ==
    /\ RunIdle /\ ByDateIdle
    /\ pc = "call_digit_stats"
    /\ arg \in [fonts : SeqsUpTo(FontTags, MaxFonts), n : {2, 3}]
    /\ ret = <<>>

CallDigitStats ==
    /\ pc = "call_digit_stats"
    /\ ret' = scrape_digit_position_stats(arg, arg.n)
    /\ pc' = "ret_digit_stats"
    /\ UNCHANGED <<arg, runVars, byDateVars>>

NextDigits == CallDigitStats

SpecDigits == InitDigits /\ [][NextDigits]_vars

(***************************************************************************)
(* SpecByDate: one call of scrape_stats_by_date.                           *)
(***************************************************************************)
MaxDayFailures == 2

InitByDate ==
    /\ RunIdle
    /\ pc = "call_by_date"
    /\ num_digits \in {2, 3}
    /\ day = 0 /\ all_dates = <<>>
    /\ budget = MaxDayFailures
    /\ flaky = 1..NumDays
    /\ arg = <<>> /\ ret = <<>>

NextByDate == CallStatsByDate \/ ScrapeDay \/ ReturnStatsByDate

SpecByDate == InitByDate /\ [][NextByDate]_vars

(***************************************************************************)
(* Properties.                                                             *)
(***************************************************************************)
SlashCount(s) == Cardinality({i \in 1..Len(s) : s[i] = "/"})

\* dd/mm/yyyy, all digits, a calendar day and month, and a Buddhist-era year
\* that has a Common-era counterpart.
ValidThaiDate(s) ==
    /\ Len(s) = 10
    /\ s[3] = "/" /\ s[6] = "/"
    /\ \A i \in {1, 2, 4, 5, 7, 8, 9, 10} : IsDigit(s[i])
    /\ DigitsValue(SubSeq(s, 1, 2)) \in 1..31
    /\ DigitsValue(SubSeq(s, 4, 5)) \in 1..12
    /\ DigitsValue(SubSeq(s, 7, 10)) >= 543

Date_06_02_2569 == <<"0", "6", "/", "0", "2", "/", "2", "5", "6", "9">>

Iso_2026_02_06 == <<"2", "0", "2", "6", "-", "0", "2", "-", "0", "6">>

\* C7: parse_thai_date turns a valid dd/mm/yyyy Buddhist-era text into
\* yyyy-mm-dd with yyyy = year - 543, padded to 4/2/2 digits
\* ("06/02/2569" gives "2026-02-06"), and returns a text that does not have
\* exactly three slash-separated parts unchanged, without raising.
C7_ParseThaiDate ==
    pc = "ret_parse_thai_date" =>
        /\ ValidThaiDate(arg) =>
               /\ Len(ret) = 10
               /\ ret[5] = "-" /\ ret[8] = "-"
               /\ \A i \in 1..4 : IsDigit(ret[i])
               /\ DigitsValue(SubSeq(ret, 1, 4))
                      = DigitsValue(SubSeq(arg, 7, 10)) - 543
               /\ SubSeq(ret, 6, 7) = SubSeq(arg, 4, 5)
               /\ SubSeq(ret, 9, 10) = SubSeq(arg, 1, 2)
        /\ arg = Date_06_02_2569 => ret = Iso_2026_02_06
        /\ SlashCount(arg) # 2 => ret = arg /\ ret # ValueError

C7_Witness ==
    /\ pc = "ret_parse_thai_date"
    /\ arg = Date_06_02_2569
    /\ ret = Iso_2026_02_06

ExpectedRates(n) == IF n = 3 THEN 4 ELSE 3

\* The fonts of the page that are labelled with digit c and sit in a row.
RowsOf(soup, c) ==
    {i \in 1..Len(soup.fonts) :
        /\ soup.fonts[i].in_row
        /\ \E k \in 1..Len(soup.fonts[i].label) :
              /\ soup.fonts[i].label[k] = c
              /\ \A j \in 1..(k - 1) : ~IsDigit(soup.fonts[i].label[j])}

SetMax(S) == CHOOSE x \in S : \A y \in S : y <= x

RateValue(soup, i, k) == IntParse(soup.fonts[i].rates[k]).val

\* C9: with width w a digit is a key of the result exactly when a row
\* labelled with it has 4 (w = 3) or 3 (w = 2) rate values; its record then
\* has exactly the slots hundreds/tens/units/total (w = 3) or
\* tens/units/total (w = 2), bound to that row's values in document order; a
\* row with any other number of values leaves no record and raises nothing.
C9_DigitStats ==
    pc = "ret_digit_stats" =>
        /\ ret.raised =>
               \E i \in 1..Len(arg.fonts) : \E k \in 1..Len(arg.fonts[i].rates) :
                   ~IntParse(arg.fonts[i].rates[k]).ok
        /\ ~ret.raised =>
               /\ Keys(ret.value) \subseteq {<<DigitChars[j]>> : j \in 1..10}
               /\ \A j \in 1..10 :
                    LET c    == DigitChars[j]
                        hits == {i \in RowsOf(arg, c) :
                                    Len(arg.fonts[i].rates) = ExpectedRates(arg.n)}
                    IN  /\ HasKey(ret.value, <<c>>) <=> hits # {}
                        /\ hits # {} =>
                             LET i   == SetMax(hits)
                                 rec == Get(ret.value, <<c>>)
                             IN  IF arg.n = 3
                                 THEN /\ DOMAIN rec
                                            = {"hundreds", "tens", "units", "total"}
                                      /\ rec.hundreds = RateValue(arg, i, 1)
                                      /\ rec.tens = RateValue(arg, i, 2)
                                      /\ rec.units = RateValue(arg, i, 3)
                                      /\ rec.total = RateValue(arg, i, 4)
                                 ELSE /\ DOMAIN rec = {"tens", "units", "total"}
                                      /\ rec.tens = RateValue(arg, i, 1)
                                      /\ rec.units = RateValue(arg, i, 2)
                                      /\ rec.total = RateValue(arg, i, 3)

\* Digit 0 with rates 12, 8, 5, 25 is kept, digit 1 with three rates is dropped.
C9_Witness ==
    /\ pc = "ret_digit_stats"
    /\ arg.n = 3
    /\ Len(arg.fonts) = 2
    /\ arg.fonts[1].label = <<"x", " ", "0">>
    /\ arg.fonts[2].label = <<"x", " ", "1">>
    /\ Len(arg.fonts[2].rates) = 3
    /\ arg.fonts[2].in_row
    /\ ~ret.raised
    /\ ret.value = << <<<<"0">>, [hundreds |-> 12, tens |-> 8,
                                 units |-> 5, total |-> 25]>> >>

IsFetch(e) == e.op = "fetch"

Fetches(tr) == SelectSeq(tr, IsFetch)

ErrorOn(d) == Event("stderr", <<"Error on date ", Dec(d), "">>)

\* The days for which the loop reported a raised fetch or extraction; budget
\* counts down the responses that made a fetch or an extraction raise.
RaisedDays == {d \in 1..NumDays : \E i \in 1..Len(trace) : trace[i] = ErrorOn(d)}

\* C2: scrape_stats_by_date fetches days 1..31 once each, in order, and
\* returns a mapping whose keys are exactly the days that did not raise.
C2_ByDateKeys ==
    pc = "by_date_done" =>
        /\ Len(Fetches(trace)) = 31
        /\ \A d \in 1..31 : Fetches(trace)[d].target = DateUrl(num_digits, d)
        /\ Keys(all_dates) = {Dec(d) : d \in (1..31) \ RaisedDays}
        /\ Len(all_dates) = 31 - Cardinality(RaisedDays)
        /\ Cardinality(RaisedDays) = MaxDayFailures - budget
        /\ \A i \in 1..Len(all_dates) : all_dates[i][2].date
                                            = DigitsValue(all_dates[i][1])

\* Only day 17 raised: 30 entries.
C2_Witness ==
    /\ pc = "by_date_done"
    /\ RaisedDays = {17}
    /\ Len(all_dates) = 30
    /\ ~HasKey(all_dates, Dec(17))
    /\ HasKey(all_dates, Dec(18))

FetchPos(d) ==
    CHOOSE i \in 1..Len(trace) : trace[i] = Event("fetch", DateUrl(num_digits, d))

SleepsIn(lo, hi) == Cardinality({k \in lo..hi : trace[k].op = "sleep"})

\* C8: in scrape_stats_by_date the delay is taken exactly once between the
\* fetch of day d and the fetch of day d+1, for every d in 1..30, and never
\* after the fetch of day 31.
C8_DelayBetweenDays ==
    pc = "by_date_done" =>
        /\ \A d \in 1..30 : SleepsIn(FetchPos(d), FetchPos(d + 1)) = 1
        /\ SleepsIn(FetchPos(31), Len(trace)) = 0

IsWrite(e) == e.op = "write"

\* The paths written so far, in the order of the save_json calls.
Writes == [i \in 1..Len(SelectSeq(trace, IsWrite)) |->
              SelectSeq(trace, IsWrite)[i].target]

Terminated == pc \in {"done", "exited", "crashed"}

Count(S) == Cardinality(S)

\* C1: when the results listing yields no record, the run reports the error,
\* exits with status 1 and has written no file, in both modes.
C1_EmptyResultsAbort ==
    (mode \in Modes /\ results = <<>> /\ pc \notin {"start", "crashed"}) =>
        /\ DOMAIN files = {}
        /\ Writes = <<>>
        /\ pc \in {"check", "exited"}
        /\ pc = "exited" =>
              /\ exit_code = <<1>>
              /\ trace[Len(trace)] = Event("stderr", Fixed("No results found!"))

C1_Witness ==
    /\ mode = "full"
    /\ pc = "exited"
    /\ results = <<>>
    /\ exit_code = <<1>>
    /\ DOMAIN files = {}

\* C3 as stated: a run that has written api/latest.json ends with
\* api/index.json as its last file write.
C3_EndsInIndex ==
    (Terminated /\ LatestPath \in DOMAIN files) =>
        /\ Writes # <<>>
        /\ Writes[Len(Writes)] = IndexPath

SummaryFetch(e) ==
    e \in {Event("fetch", LAO_STATS_LAST3_URL), Event("fetch", LAO_STATS_LAST2_URL)}

\* The guard of some step of the run holds.
CanStep ==
    \/ pc \in {"start", "check", "stamp", "latest", "results", "group",
                "years", "index", "call_by_date"}
    \/ pc \in {"stats3", "stats2"} /\ mode = "full"
    \/ pc = "by_date" /\ day \in 1..(NumDays + 1)
    \/ pc = "by_date_done" /\ mode = "full" /\ num_digits \in {2, 3}

\* C3 amended: the index is written once, as the last write of a run that
\* returns; a run that has written api/latest.json ends without an index
\* only in full mode, when the scrape of a stats-years10 summary page raised;
\* until it has ended, a run always has a next step.
C3_EndsInIndexUnlessSummaryRaises ==
    /\ ~Terminated => CanStep
    /\ IndexPath \in DOMAIN files =>
          /\ pc = "done"
          /\ Writes[Len(Writes)] = IndexPath
          /\ Count({i \in 1..Len(Writes) : Writes[i] = IndexPath}) = 1
    /\ pc = "done" => IndexPath \in DOMAIN files /\ exit_code = <<0>>
    /\ (Terminated /\ LatestPath \in DOMAIN files /\ pc # "done") =>
          /\ mode = "full"
          /\ pc = "crashed"
          /\ SummaryFetch(trace[Len(trace)])

C3_Witness ==
    /\ pc = "done"
    /\ mode = "full"
    /\ LatestPath \in DOMAIN files
    /\ Len(Writes) > 60
    /\ Writes[Len(Writes)] = IndexPath

NowEvents == {i \in 1..Len(trace) : trace[i].op = "now"}

\* C4 as stated: updated_at is fixed before any fetch or file write, and
\* every file of the run carries it.
C4_StampBeforeAnyFetch ==
    /\ \A i \in NowEvents : \A j \in 1..(i - 1) :
           trace[j].op \notin {"fetch", "write"}
    /\ \A f \in DOMAIN files : files[f].updated_at = now

\* C4 amended: updated_at is read once, right after the results listing has
\* been fetched and before any file write or statistics fetch, and every
\* file of the run carries that value.
C4_StampAfterResultsFetch ==
    /\ Count(NowEvents) <= 1
    /\ now = <<>> => NowEvents = {} /\ DOMAIN files = {} /\ Writes = <<>>
    /\ now # <<>> =>
          /\ NowEvents = {2}
          /\ trace[1] = Event("fetch", LAO_LOTTERY_URL)
          /\ trace[2] = Event("now", now)
          /\ now = Timestamp(1)
    /\ \A f \in DOMAIN files : files[f].updated_at = now

C4_Witness ==
    /\ pc = "done"
    /\ mode = "full"
    /\ DayPath(2, Dec(31)) \in DOMAIN files
    /\ clock > 60
    /\ files[IndexPath].updated_at = Timestamp(1)
    /\ files[DayPath(2, Dec(31))].updated_at = Timestamp(1)

\* C5: every emitted file has status "ok", updated_at and source.
C5_EveryFileHasSource ==
    \A f \in DOMAIN files :
        /\ {"status", "updated_at", "source"} \subseteq DOMAIN files[f]
        /\ files[f].status = "ok"

Years == {YearOf(results[i]) : i \in 1..Len(results)}

OfYear(y) == SelectSeq(results, LAMBDA r : YearOf(r) = y)

RECURSIVE SumCounts(_)
SumCounts(S) ==
    IF S = {} THEN 0
    ELSE LET y == CHOOSE x \in S : TRUE
         IN  files[YearPath(y)].count + SumCounts(S \ {y})

\* C6: a latest run over a non-empty record list writes the first record to
\* api/latest.json, all records in order with their count to
\* api/results.json, one year file per distinct year holding that year's
\* records in order with their count, and an index whose by_year lists
\* exactly those year files in descending order of year.
C6_LatestRunFiles ==
    (mode = "latest" /\ pc = "done") =>
        /\ results # <<>>
        /\ files[LatestPath].data = results[1]
        /\ files[ResultsPath].data = results
        /\ files[ResultsPath].count = Len(results)
        /\ DOMAIN files = {LatestPath, ResultsPath, IndexPath}
                              \cup {YearPath(y) : y \in Years}
        /\ \A y \in Years :
              /\ Count({i \in 1..Len(Writes) : Writes[i] = YearPath(y)}) = 1
              /\ files[YearPath(y)].year = y
              /\ files[YearPath(y)].data = OfYear(y)
              /\ files[YearPath(y)].count = Len(OfYear(y))
        /\ SumCounts(Years) = Len(results)
        /\ LET listed == files[IndexPath].endpoints.by_year
           IN  /\ Len(listed) = Count(Years)
               /\ {listed[i] : i \in 1..Len(listed)} = {YearPath(y) : y \in Years}
               /\ \A i \in 1..(Len(listed) - 1) :
                     StrLess(listed[i + 1][2], listed[i][2])
               /\ \A i \in 1..(Len(listed) - 1) :
                     (IsDigitText(listed[i][2]) /\ IsDigitText(listed[i + 1][2]))
                         => DigitsValue(listed[i + 1][2]) < DigitsValue(listed[i][2])

\* Three records, of the years 2026, 2025 and 2026.
C6_Witness ==
    /\ mode = "latest"
    /\ pc = "done"
    /\ Len(results) = 3
    /\ Years = {T4("2", "0", "2", "6"), T4("2", "0", "2", "5")}
    /\ results[1] # results[3]
    /\ files[YearPath(T4("2", "0", "2", "6"))].count = 2
    /\ files[YearPath(T4("2", "0", "2", "5"))].count = 1
    /\ files[IndexPath].endpoints.by_year
           = <<YearPath(T4("2", "0", "2", "6")), YearPath(T4("2", "0", "2", "5"))>>

\* C10: the index lists latest, all results, the year files, both summaries,
\* both by-date files and date1..date31 of each width, whatever the mode and
\* whichever of those files the run wrote.
C10_IndexIsStatic ==
    IndexPath \in DOMAIN files =>
        LET ix == files[IndexPath]
            e  == ix.endpoints
        IN  /\ ix.updated_at = now
            /\ e.latest = LatestPath
            /\ e.all_results = ResultsPath
            /\ {e.by_year[i] : i \in 1..Len(e.by_year)}
                   = {YearPath(y) : y \in Years}
            /\ e.stats_last3 = Fixed("api/stats/last3.json")
            /\ e.stats_last2 = Fixed("api/stats/last2.json")
            /\ e.stats_last3_by_date = Fixed("api/stats/last3-by-date.json")
            /\ e.stats_last2_by_date = Fixed("api/stats/last2-by-date.json")
            /\ Len(e.stats_last3_date) = 31
            /\ Len(e.stats_last2_date) = 31
            /\ \A d \in 1..31 :
                  /\ e.stats_last3_date[d] = <<"api/stats/last3/date", Dec(d), ".json">>
                  /\ e.stats_last2_date[d] = <<"api/stats/last2/date", Dec(d), ".json">>

\* A full run in which day 17 of the 3-digit pages failed: the index lists
\* date17.json although the run did not write it.
C10_Witness ==
    /\ pc = "done"
    /\ mode = "full"
    /\ DayPath(3, Dec(17)) \notin DOMAIN files
    /\ DayPath(3, Dec(16)) \in DOMAIN files
    /\ files[IndexPath].endpoints.stats_last3_date[17] = DayPath(3, Dec(17))

====
